---- MODULE Spec2Model ----
(***************************************************************************)
(* Model of hb_parse's CommonParserFunctions (parser_funcs.rs): the        *)
(* lexical primitives implemented for every Source.  A character is a      *)
(* string, a text is a sequence of characters.  The Source itself (peek,   *)
(* next, read_substr, get_pointer_loc, consume, reset_pointer_loc) is the  *)
(* in-memory cursor described by the specification: `committed` is the     *)
(* number of characters already consumed, `ptr` the lookahead offset       *)
(* relative to it.  The backing store never fails.  `frame` holds the      *)
(* position and the locals of a call that is executed one step at a time.  *)
(***************************************************************************)
EXTENDS Integers, Sequences, FiniteSets, TLC

VARIABLES input, committed, ptr, last, frame

vars == <<input, committed, ptr, last, frame>>

(***************************************************************************)
(* Bounds                                                                  *)
(***************************************************************************)
MaxLen == 3

MaxNum == 11

(***************************************************************************)
(* Character classes (char::is_whitespace, char::is_alphanumeric,          *)
(* char::is_ascii_alphanumeric, char::is_ascii_digit).  "U+00E9" stands    *)
(* for a non-ASCII letter.                                                 *)
(***************************************************************************)
WhitespaceChars == {" ", "\t", "\n"}

AsciiDigits == {"0", "1", "2", "3", "4", "5", "6", "7", "8", "9"}

AsciiLetters ==
    {"a", "b", "c", "d", "e", "f", "g", "h", "i", "k", "l", "m", "n", "o",
     "r", "s", "t", "w", "y", "z", "A", "E", "F", "I", "N", "O", "S", "T", "Y"}

is_whitespace(ch) == ch \in WhitespaceChars

is_ascii_digit(ch) == ch \in AsciiDigits

is_ascii_alphanumeric(ch) == ch \in (AsciiLetters \cup AsciiDigits)

is_alphanumeric(ch) == is_ascii_alphanumeric(ch) \/ ch = "U+00E9"

(***************************************************************************)
(* The cursor (trait Source)                                               *)
(***************************************************************************)
Cursor(c, p) == [committed |-> c, ptr |-> p]

NoItem == [some |-> FALSE, pos |-> 0, ch |-> ""]

\* peek(): the next character and its lookahead position, None at the end
peek(inp, c) ==
    IF c.committed + c.ptr < Len(inp)
    THEN [some |-> TRUE, pos |-> c.ptr, ch |-> inp[c.committed + c.ptr + 1]]
    ELSE NoItem

\* the cursor after next(): the lookahead moves past the returned character
advance(inp, c) ==
    IF peek(inp, c).some THEN Cursor(c.committed, c.ptr + 1) ELSE c

\* next(): what peek() returns, with the lookahead advanced
next(inp, c) == [item |-> peek(inp, c), cur |-> advance(inp, c)]

get_pointer_loc(c) == c.ptr

reset_pointer_loc(c) == Cursor(c.committed, 0)

\* consume(n): commits the first n lookahead characters
consume(c, n) == Cursor(c.committed + n, 0)

\* read_substr(start, len): the characters start .. start+len-1 after committed
read_substr(inp, c, start, len) ==
    IF start >= 0 /\ len >= 0 /\ c.committed + start + len <= Len(inp)
    THEN [ok |-> TRUE,
          str |-> SubSeq(inp, c.committed + start + 1, c.committed + start + len)]
    ELSE [ok |-> FALSE, str |-> <<>>]

(***************************************************************************)
(* Results (ParseResult<T>)                                                *)
(***************************************************************************)
NoNum == [tag |-> "none", neg |-> FALSE, mant |-> 0, exp |-> 0]

Result(c, res, kind, str, ch, flag, num) ==
    [cur |-> c, res |-> res, kind |-> kind, str |-> str, ch |-> ch,
     flag |-> flag, num |-> num]

OkUnit(c) == Result(c, "ok", "None", <<>>, "", FALSE, NoNum)

OkStr(c, s) == Result(c, "ok", "None", s, "", FALSE, NoNum)

OkChar(c, ch) == Result(c, "ok", "None", <<>>, ch, FALSE, NoNum)

OkBool(c, b) == Result(c, "ok", "None", <<>>, "", b, NoNum)

OkNum(c, n) == Result(c, "ok", "None", <<>>, "", FALSE, n)

Err(c, kind) == Result(c, "err", kind, <<>>, "", FALSE, NoNum)

\* ParseError::new().msg(..)
GenericErr(c) == Err(c, "Generic")

\* SourceEmpty::new(), err_type_source_empty()
SourceEmpty(c) == Err(c, "Empty")

\* UnexpectedChar::new()
UnexpectedChar(c) == Err(c, "Unexpected")

\* self.read_substr(..)? : the extracted text, or the store's error
SubstrResult(c, sub) == IF sub.ok THEN OkStr(c, sub.str) ELSE GenericErr(c)

(***************************************************************************)
(* skip_whitespace / consume_whitespace                                    *)
(***************************************************************************)
RECURSIVE skip_whitespace(_, _)
skip_whitespace(inp, c) ==
    LET p == peek(inp, c) IN
    IF ~p.some THEN OkUnit(c)
    ELSE IF is_whitespace(p.ch) THEN skip_whitespace(inp, next(inp, c).cur)
    ELSE OkUnit(c)

\* consume_whitespace when peek() returns None
consume_whitespace_at_end(c) == OkUnit(c)

RECURSIVE consume_whitespace_loop(_, _)
consume_whitespace_loop(inp, c) ==
    LET p == peek(inp, c) IN
    IF ~p.some THEN consume_whitespace_at_end(c)
    ELSE IF is_whitespace(p.ch) THEN consume_whitespace_loop(inp, next(inp, c).cur)
    ELSE OkUnit(consume(c, get_pointer_loc(c)))

\* consume_whitespace without the fresh-cursor check
consume_whitespace_unchecked(inp, c) == consume_whitespace_loop(inp, c)

consume_whitespace(inp, c) ==
    IF get_pointer_loc(c) # 0 THEN GenericErr(c)
    ELSE consume_whitespace_loop(inp, c)

(***************************************************************************)
(* read_word / parse_word                                                  *)
(***************************************************************************)
\* read_word_at_end that reports the empty source without rolling back
read_word_at_end_no_reset(c) == SourceEmpty(c)

\* read_word when the input ends with no character of a word scanned
read_word_at_end(c) == SourceEmpty(reset_pointer_loc(c))

RECURSIVE read_word_loop(_, _, _)
read_word_loop(inp, c, start_i) ==
    LET p == peek(inp, c) IN
    IF ~p.some
    THEN IF get_pointer_loc(c) = start_i
         THEN read_word_at_end(c)
         ELSE SubstrResult(c, read_substr(inp, c, start_i, get_pointer_loc(c) - start_i))
    ELSE IF ~is_alphanumeric(p.ch)
         THEN SubstrResult(c, read_substr(inp, c, start_i, p.pos - start_i))
         ELSE read_word_loop(inp, next(inp, c).cur, start_i)

read_word(inp, c) ==
    LET c1 == skip_whitespace(inp, c).cur IN
    read_word_loop(inp, c1, get_pointer_loc(c1))

\* parse_word_commit that commits the length of the word, not of the scan
parse_word_commit_word_only(r) == OkStr(consume(r.cur, Len(r.str)), r.str)

\* parse_word_commit that returns the word and commits nothing
parse_word_commit_none(r) == OkStr(r.cur, r.str)

\* parse_word after a successful read_word: commit the scanned length
parse_word_commit(r) == OkStr(consume(r.cur, get_pointer_loc(r.cur)), r.str)

parse_word(inp, c) ==
    IF get_pointer_loc(c) # 0 THEN GenericErr(c)
    ELSE LET r == read_word(inp, c) IN
         IF r.res = "err" THEN r ELSE parse_word_commit(r)

(***************************************************************************)
(* parse_string                                                            *)
(***************************************************************************)
\* the closing delimiter is found at lookahead position 1
parse_string_empty(c) == OkStr(c, <<>>)

\* the closing delimiter is found at lookahead position i
parse_string_close(inp, c, start_i, i) ==
    IF i = 1 THEN parse_string_empty(c)
    ELSE LET sub == read_substr(inp, c, start_i + 1, i - start_i - 1) IN
         IF ~sub.ok THEN GenericErr(c)
         ELSE OkStr(consume(c, i + 1), sub.str)

\* parse_string_unterminated that reports the empty source without rolling back
parse_string_unterminated_no_reset(c) == SourceEmpty(c)

\* parse_string when the input ends before the closing delimiter
parse_string_unterminated(c) == SourceEmpty(reset_pointer_loc(c))

RECURSIVE parse_string_loop(_, _, _, _)
parse_string_loop(inp, c, start_i, expected_ending) ==
    LET n == next(inp, c) IN
    IF ~n.item.some THEN parse_string_unterminated(n.cur)
    ELSE IF n.item.ch = expected_ending
         THEN parse_string_close(inp, n.cur, start_i, n.item.pos)
         ELSE parse_string_loop(inp, n.cur, start_i, expected_ending)

\* the first character is not a quote: return Ok(self.parse_word())?
parse_string_bare(inp, c) == parse_word(inp, c)

parse_string(inp, c) ==
    IF get_pointer_loc(c) # 0 THEN GenericErr(c)
    ELSE LET c1 == skip_whitespace(inp, c).cur
             start_i == get_pointer_loc(c1)
             n == next(inp, c1)
         IN IF ~n.item.some THEN SourceEmpty(reset_pointer_loc(n.cur))
            ELSE IF n.item.ch = "'" THEN parse_string_loop(inp, n.cur, start_i, "'")
            ELSE IF n.item.ch = "\"" THEN parse_string_loop(inp, n.cur, start_i, "\"")
            ELSE parse_string_bare(inp, n.cur)

(***************************************************************************)
(* parse_brackets                                                          *)
(***************************************************************************)
\* bracket_level that also counts a nested opener of the same kind
bracket_level_nested(level, ch, expected_ending) ==
    LET opener == CHOOSE o \in {"(", "<", "[", "{"} :
                      <<o, expected_ending>> \in
                          {<<"(", ")">>, <<"<", ">">>, <<"[", "]">>, <<"{", "}">>}
    IN IF ch = expected_ending THEN level - 1
       ELSE IF ch = opener THEN level + 1
       ELSE level

\* parse_brackets_unexpected that reports the character without rolling back
parse_brackets_unexpected_no_reset(c) == UnexpectedChar(c)

\* parse_brackets when the first character is not an opening bracket
parse_brackets_unexpected(c) == UnexpectedChar(reset_pointer_loc(c))

\* the level after the character ch has been read
bracket_level(level, ch, expected_ending) ==
    IF ch = expected_ending THEN level - 1 ELSE level

RECURSIVE parse_brackets_loop(_, _, _, _, _)
parse_brackets_loop(inp, c, start_i, expected_ending, level) ==
    LET n == next(inp, c)
        lvl == bracket_level(level, n.item.ch, expected_ending)
    IN IF ~n.item.some THEN SourceEmpty(reset_pointer_loc(n.cur))
       ELSE IF n.item.ch = expected_ending /\ lvl = 0
            THEN LET sub == read_substr(inp, n.cur, start_i + 1,
                                        n.item.pos - start_i - 1)
                 IN IF ~sub.ok THEN GenericErr(n.cur)
                    ELSE OkStr(consume(n.cur, n.item.pos + 1), sub.str)
            ELSE parse_brackets_loop(inp, n.cur, start_i, expected_ending, lvl)

parse_brackets(inp, c) ==
    IF get_pointer_loc(c) # 0 THEN GenericErr(c)
    ELSE LET c1 == skip_whitespace(inp, c).cur
             start_i == get_pointer_loc(c1)
             n == next(inp, c1)
         IN IF ~n.item.some THEN SourceEmpty(reset_pointer_loc(n.cur))
            ELSE IF n.item.ch = "(" THEN parse_brackets_loop(inp, n.cur, start_i, ")", 1)
            ELSE IF n.item.ch = "<" THEN parse_brackets_loop(inp, n.cur, start_i, ">", 1)
            ELSE IF n.item.ch = "[" THEN parse_brackets_loop(inp, n.cur, start_i, "]", 1)
            ELSE IF n.item.ch = "{" THEN parse_brackets_loop(inp, n.cur, start_i, "}", 1)
            ELSE parse_brackets_unexpected(n.cur)

(***************************************************************************)
(* read_symbol / parse_symbol                                              *)
(***************************************************************************)
read_symbol(inp, c) ==
    LET c1 == skip_whitespace(inp, c).cur
        p == peek(inp, c1)
    IN IF ~p.some THEN SourceEmpty(c1)
       ELSE IF ~is_whitespace(p.ch) /\ ~is_ascii_alphanumeric(p.ch)
            THEN OkChar(next(inp, c1).cur, p.ch)
            ELSE GenericErr(c1)

parse_symbol(inp, c) ==
    IF get_pointer_loc(c) # 0 THEN GenericErr(c)
    ELSE read_symbol(inp, c)

(***************************************************************************)
(* match_char / match_str / match_num                                      *)
(***************************************************************************)
\* match_char when the peeked character differs from val
match_char_mismatch(c) == OkBool(c, FALSE)

match_char(inp, c, val) ==
    IF get_pointer_loc(c) # 0 THEN GenericErr(c)
    ELSE LET c1 == skip_whitespace(inp, c).cur
             p == peek(inp, c1)
         IN IF ~p.some THEN SourceEmpty(c1)
            ELSE IF p.ch = val THEN OkBool(consume(c1, p.pos + 1), TRUE)
            ELSE match_char_mismatch(c1)

\* match_str_mismatch that returns false without rolling back
match_str_mismatch_no_reset(c) == OkBool(c, FALSE)

\* match_str when a read character differs from the expected one
match_str_mismatch(c) == OkBool(reset_pointer_loc(c), FALSE)

\* match_str when the last character of val has matched at position i
match_str_matched(c, i) == OkBool(consume(c, i + 1), TRUE)

\* k is the index in val of next_char
RECURSIVE match_str_loop(_, _, _, _)
match_str_loop(inp, c, val, k) ==
    LET n == next(inp, c) IN
    IF ~n.item.some THEN SourceEmpty(reset_pointer_loc(n.cur))
    ELSE IF n.item.ch # val[k] THEN match_str_mismatch(n.cur)
    ELSE IF k = Len(val) THEN match_str_matched(n.cur, n.item.pos)
    ELSE match_str_loop(inp, n.cur, val, k + 1)

match_str(inp, c, val) ==
    IF get_pointer_loc(c) # 0 THEN GenericErr(c)
    ELSE LET c1 == skip_whitespace(inp, c).cur IN
         IF Len(val) = 0 THEN SourceEmpty(c1)
         ELSE match_str_loop(inp, c1, val, 1)

\* Display for an unsigned value: its decimal digits, most significant first
DigitChar(d) == <<"0", "1", "2", "3", "4", "5", "6", "7", "8", "9">>[d + 1]

RECURSIVE FormatNat(_)
FormatNat(n) ==
    IF n < 10 THEN <<DigitChar(n)>>
    ELSE Append(FormatNat(n \div 10), DigitChar(n % 10))

\* format!("{}", val) for an integer val
FormatInt(n) == IF n < 0 THEN <<"-">> \o FormatNat(-n) ELSE FormatNat(n)

match_num(inp, c, val) == match_str(inp, c, FormatInt(val))

(***************************************************************************)
(* The target types of parse_num and their FromStr conversions             *)
(***************************************************************************)
NumTypes == {"u8", "i8", "f32"}

\* TypeId::of::<N>() is f64 or f32
is_float(N) == N = "f32"

is_signed(N) == N = "i8"

MinValue(N) == IF N = "i8" THEN -128 ELSE 0

MaxValue(N) == IF N = "i8" THEN 127 ELSE 255

NumInt(n) ==
    [tag |-> "int", neg |-> n < 0, mant |-> IF n < 0 THEN -n ELSE n, exp |-> 0]

NumInf(neg) == [tag |-> "inf", neg |-> neg, mant |-> 0, exp |-> 0]

NumNaN == [tag |-> "nan", neg |-> FALSE, mant |-> 0, exp |-> 0]

\* a finite decimal mant * 10^exp without trailing zeros in mant
RECURSIVE NumFinite(_, _, _)
NumFinite(neg, mant, exp) ==
    IF mant = 0 THEN [tag |-> "finite", neg |-> neg, mant |-> 0, exp |-> 0]
    ELSE IF mant % 10 = 0 THEN NumFinite(neg, mant \div 10, exp + 1)
    ELSE [tag |-> "finite", neg |-> neg, mant |-> mant, exp |-> exp]

ConvErr == [ok |-> FALSE, num |-> NoNum]

ConvOk(n) == [ok |-> TRUE, num |-> n]

DigitVal(ch) == CHOOSE d \in 0..9 : DigitChar(d) = ch

AllDigits(s) == \A k \in 1..Len(s) : is_ascii_digit(s[k])

\* the value of a run of decimal digits (0 for the empty run)
RECURSIVE DigitsValue(_)
DigitsValue(s) ==
    IF Len(s) = 0 THEN 0
    ELSE 10 * DigitsValue(SubSeq(s, 1, Len(s) - 1)) + DigitVal(s[Len(s)])

Tail1(s) == SubSeq(s, 2, Len(s))

\* <integer type>::from_str
IntFromStr(N, s) ==
    IF Len(s) = 0 THEN ConvErr
    ELSE LET neg == s[1] = "-" /\ is_signed(N)
             digits == IF s[1] = "+" \/ neg THEN Tail1(s) ELSE s
             v == IF neg THEN -DigitsValue(digits) ELSE DigitsValue(digits)
         IN IF Len(digits) = 0 \/ ~AllDigits(digits) THEN ConvErr
            ELSE IF v < MinValue(N) \/ v > MaxValue(N) THEN ConvErr
            ELSE ConvOk(NumInt(v))

LowerLetters == <<"a", "e", "f", "i", "n", "o", "s", "t", "y">>

UpperLetters == <<"A", "E", "F", "I", "N", "O", "S", "T", "Y">>

to_ascii_uppercase(ch) ==
    IF \E k \in 1..Len(LowerLetters) : LowerLetters[k] = ch
    THEN UpperLetters[CHOOSE k \in 1..Len(LowerLetters) : LowerLetters[k] = ch]
    ELSE ch

\* String::make_ascii_uppercase
make_ascii_uppercase(s) == [k \in 1..Len(s) |-> to_ascii_uppercase(s[k])]

INF == <<"I", "N", "F">>

INFINITY == <<"I", "N", "F", "I", "N", "I", "T", "Y">>

NAN == <<"N", "A", "N">>

\* the length of the maximal run of digits of s that starts at index k
RECURSIVE DigitRun(_, _)
DigitRun(s, k) ==
    IF k <= Len(s) /\ is_ascii_digit(s[k]) THEN 1 + DigitRun(s, k + 1) ELSE 0

\* the unsigned decimal text body: Digit* ('.' Digit*)? (('e'|'E') Sign? Digit+)?
\* with at least one digit before the exponent
FloatBodyFromStr(neg, body) ==
    LET nInt == DigitRun(body, 1)
        hasDot == nInt + 1 <= Len(body) /\ body[nInt + 1] = "."
        fracAt == IF hasDot THEN nInt + 2 ELSE nInt + 1
        nFrac == IF hasDot THEN DigitRun(body, fracAt) ELSE 0
        expAt == fracAt + nFrac
        hasExp == expAt <= Len(body) /\ body[expAt] \in {"e", "E"}
        hasExpSign == hasExp /\ expAt + 1 <= Len(body)
                        /\ body[expAt + 1] \in {"+", "-"}
        expDigitsAt == IF hasExpSign THEN expAt + 2 ELSE expAt + 1
        nExp == IF hasExp THEN DigitRun(body, expDigitsAt) ELSE 0
        endAt == IF hasExp THEN expDigitsAt + nExp ELSE expAt
        mant == DigitsValue(SubSeq(body, 1, nInt) \o SubSeq(body, fracAt, fracAt + nFrac - 1))
        e == DigitsValue(SubSeq(body, expDigitsAt, expDigitsAt + nExp - 1))
        exp == (IF hasExpSign /\ body[expAt + 1] = "-" THEN -e ELSE e) - nFrac
    IN IF nInt + nFrac = 0 \/ (hasExp /\ nExp = 0) \/ endAt # Len(body) + 1
       THEN ConvErr
       ELSE ConvOk(NumFinite(neg, mant, exp))

\* <float type>::from_str
FloatFromStr(s) ==
    IF Len(s) = 0 THEN ConvErr
    ELSE LET neg == s[1] = "-"
             body == IF s[1] \in {"+", "-"} THEN Tail1(s) ELSE s
             up == make_ascii_uppercase(body)
         IN IF up = INF \/ up = INFINITY THEN ConvOk(NumInf(neg))
            ELSE IF up = NAN THEN ConvOk(NumNaN)
            ELSE FloatBodyFromStr(neg, body)

\* substr.parse::<N>()
FromStr(N, s) == IF is_float(N) THEN FloatFromStr(s) ELSE IntFromStr(N, s)

(***************************************************************************)
(* parse_num                                                               *)
(***************************************************************************)
\* skip_digits that moves past one digit only
skip_digits_once(inp, c) ==
    LET p == peek(inp, c) IN
    IF p.some /\ is_ascii_digit(p.ch) THEN next(inp, c).cur ELSE c

\* while let Some((_, c)) = self.peek()? { if !c.is_ascii_digit() { break } .. }
RECURSIVE skip_digits(_, _)
skip_digits(inp, c) ==
    LET p == peek(inp, c) IN
    IF p.some /\ is_ascii_digit(p.ch) THEN skip_digits(inp, next(inp, c).cur) ELSE c

\* if the peeked character is one of chars, move past it
skip_one_of(inp, c, chars) ==
    LET p == peek(inp, c) IN
    IF p.some /\ p.ch \in chars THEN next(inp, c).cur ELSE c

\* the fractional part and the exponent, scanned for float targets only
skip_float_tail(inp, c) ==
    LET c1 == skip_one_of(inp, c, {"."})
        c2 == skip_digits(inp, c1)
        c3 == skip_one_of(inp, c2, {"e", "E"})
        has_exp == c3 # c2
    IN IF has_exp THEN skip_digits(inp, skip_one_of(inp, c3, {"+", "-"})) ELSE c3

\* parse_num_convert with the commit made before the conversion is tried
parse_num_convert_commit_first(inp, c, N, start_i) ==
    LET sub == read_substr(inp, c, start_i, get_pointer_loc(c) - start_i)
        conv == FromStr(N, sub.str)
        done == consume(c, get_pointer_loc(c))
    IN IF ~conv.ok THEN GenericErr(done) ELSE OkNum(done, conv.num)

\* parse_num_convert that reports the failed conversion without rolling back
parse_num_convert_no_reset(inp, c, N, start_i) ==
    LET sub == read_substr(inp, c, start_i, get_pointer_loc(c) - start_i)
        conv == FromStr(N, sub.str)
    IN IF ~conv.ok THEN GenericErr(c)
       ELSE OkNum(consume(c, get_pointer_loc(c)), conv.num)

\* the accumulated span is converted; failure rolls back, success commits
parse_num_convert(inp, c, N, start_i) ==
    LET sub == read_substr(inp, c, start_i, get_pointer_loc(c) - start_i)
        conv == FromStr(N, sub.str)
    IN IF ~conv.ok THEN GenericErr(reset_pointer_loc(c))
       ELSE OkNum(consume(c, get_pointer_loc(c)), conv.num)

\* the digits, and for floats the fraction and exponent, then the conversion
parse_num_digits(inp, c, N, start_i) ==
    LET c1 == skip_digits(inp, c)
        c2 == IF is_float(N) THEN skip_float_tail(inp, c1) ELSE c1
    IN parse_num_convert(inp, c2, N, start_i)

\* parse_num when the input ends after the whitespace or after the sign
parse_num_at_end(c) == SourceEmpty(c)

\* after the optional sign: the inf / infinity / nan shortcut
parse_num_unsigned(inp, c, N, start_i) ==
    LET p == peek(inp, c) IN
    IF ~p.some THEN parse_num_at_end(c)
    ELSE IF is_float(N) /\ p.ch \in {"i", "I", "n", "N"}
         THEN LET w == read_word(inp, c) IN
              IF w.res = "err" THEN w
              ELSE IF make_ascii_uppercase(w.str) \in {INF, INFINITY, NAN}
                   THEN parse_num_convert(inp, w.cur, N, start_i)
                   ELSE parse_num_digits(inp, w.cur, N, start_i)
         ELSE parse_num_digits(inp, c, N, start_i)

parse_num(inp, c, N) ==
    IF get_pointer_loc(c) # 0 THEN GenericErr(c)
    ELSE LET c1 == skip_whitespace(inp, c).cur
             start_i == get_pointer_loc(c1)
             p == peek(inp, c1)
         IN IF ~p.some THEN parse_num_at_end(c1)
            ELSE parse_num_unsigned(inp, skip_one_of(inp, c1, {"-", "+"}), N, start_i)

(***************************************************************************)
(* Inputs                                                                  *)
(***************************************************************************)
\* the source of tests::parser_func_tests
TestSource ==
    <<"T", "h", "i", "s", " ", "i", "s", " ", "a", " ", "w", "o", "r", "d",
      ".", " ", "A", "n", "d", " ", "s", "o", "m", "e", " ", "\"", "S",
      "t", "r", "i", "n", "g", "s", ",", " ", "a", "m", "a", "z", "i", "n",
      "g", "!", "\"", " ", "1", " ", "-", "2", " ", "1", "2", ".", "3",
      " ", "+", "i", "n", "f", " ", "-", "i", "n", "f", "i", "n", "i", "t",
      "y", " ", "i", "n", "f", "i", "n", "i", "t", "y", " ", "-", "n", "a",
      "n", " ", "(", "O", "r", " ", "s", "o", "m", "e", "t", "h", "i", "n",
      "g", " ", "l", "i", "k", "e", " ", "t", "h", "a", "t", ")", " ", "2",
      "!", " ", "1", ".", "0">>

Texts(chars, n) == UNION {[1..k -> chars] : k \in 0..n}

WordTexts == Texts({" ", "a", "1", "."}, MaxLen)

StrTexts == Texts({" ", "a", "'", "\""}, MaxLen)

BrTexts == Texts({" ", "a", "(", ")"}, MaxLen)

NumTexts == Texts({" ", "1", "-", "."}, MaxLen)

ExampleTexts ==
    {TestSource,
     <<"T", "h", "i", "s", " ", "i", "s", " ", "a", " ", "w", "o", "r", "d",
      ".">>,
     <<"(", "a", "(", "b", ")", "c", ")">>,
     <<"(", "(", ")", "a", ")">>,
     <<" ", "(", "a", ")">>,
     <<"[", "a", "]">>,
     <<"{", "a", "}">>,
     <<"<", "a", ">">>,
     <<"(", "a", "]">>,
     <<" ", "'", "a", "'">>,
     <<" ", "\"", "a", "'", "\"", " ">>,
     <<"+", "i", "n", "f">>,
     <<"-", "n", "a", "n">>,
     <<"I", "n", "f", "i", "n", "i", "t", "y">>,
     <<"1", "2", ".", "3">>,
     <<"1", "e", "-", "1">>,
     <<"3", "0", "0">>,
     <<"-", "1", "2", "8">>,
     <<"-", "1", "2", "9">>,
     <<"+", "1">>,
     <<"n", "1">>,
     <<"1", "e">>,
     <<"U+00E9", "a", ".">>}

Inputs == WordTexts \cup StrTexts \cup BrTexts \cup NumTexts \cup ExampleTexts

MatchChars == {"a", "(", "'"}

MatchStrs == {<<>>, <<"a">>, <<"a", "1">>, <<"1", ".">>, <<"T", "h", "i", "s">>}

MatchNums == {0 - MaxNum, -1, 1, MaxNum}

(***************************************************************************)
(* The state machine: one action per call of a primitive.  `last` records  *)
(* the call that produced the current cursor: the operation, its argument, *)
(* the cursor before the call and what the call returned.                  *)
(***************************************************************************)
NoCall ==
    [op |-> "none", ch_arg |-> "", str_arg |-> <<>>, num_arg |-> 0,
     type_arg |-> "", pre |-> Cursor(0, 0), res |-> "none", kind |-> "None",
     str |-> <<>>, ch |-> "", flag |-> FALSE, num |-> NoNum]

\* no call is in progress
NoFrame ==
    [pc |-> "idle", op |-> "none", fn |-> "none", ret |-> "none",
     ch_arg |-> "", str_arg |-> <<>>, num_arg |-> 0, type_arg |-> "",
     val |-> <<>>, entry |-> Cursor(0, 0), start_i |-> 0, num_start |-> 0,
     expected_ending |-> "", level |-> 0, k |-> 0,
     nexts |-> 0, moved |-> 0, steps |-> 0]

Call(op, ch_arg, str_arg, num_arg, type_arg, r) ==
    /\ frame = NoFrame
    /\ frame' = frame
    /\ input' = input
    /\ committed' = r.cur.committed
    /\ ptr' = r.cur.ptr
    /\ last' = [op |-> op, ch_arg |-> ch_arg, str_arg |-> str_arg,
                num_arg |-> num_arg, type_arg |-> type_arg,
                pre |-> Cursor(committed, ptr), res |-> r.res, kind |-> r.kind,
                str |-> r.str, ch |-> r.ch, flag |-> r.flag, num |-> r.num]

Cur == Cursor(committed, ptr)

Init ==
    /\ input \in Inputs
    /\ committed = 0
    /\ ptr = 0
    /\ last = NoCall
    /\ frame = NoFrame

ReadWord == Call("read_word", "", <<>>, 0, "", read_word(input, Cur))

ParseWord == Call("parse_word", "", <<>>, 0, "", parse_word(input, Cur))

ParseString == Call("parse_string", "", <<>>, 0, "", parse_string(input, Cur))

ParseBrackets == Call("parse_brackets", "", <<>>, 0, "", parse_brackets(input, Cur))

ParseNum ==
    \E N \in NumTypes : Call("parse_num", "", <<>>, 0, N, parse_num(input, Cur, N))

ParseSymbol == Call("parse_symbol", "", <<>>, 0, "", parse_symbol(input, Cur))

ReadSymbol == Call("read_symbol", "", <<>>, 0, "", read_symbol(input, Cur))

MatchChar ==
    \E val \in MatchChars :
        Call("match_char", val, <<>>, 0, "", match_char(input, Cur, val))

MatchStr ==
    \E val \in MatchStrs :
        Call("match_str", "", val, 0, "", match_str(input, Cur, val))

MatchNum ==
    \E val \in MatchNums :
        Call("match_num", "", <<>>, val, "", match_num(input, Cur, val))

ConsumeWhitespace ==
    Call("consume_whitespace", "", <<>>, 0, "", consume_whitespace(input, Cur))

SkipWhitespace ==
    Call("skip_whitespace", "", <<>>, 0, "", skip_whitespace(input, Cur))

\* the primitives that check for a fresh cursor
NextParse ==
    \/ ParseWord
    \/ ParseString
    \/ ParseBrackets
    \/ ParseNum
    \/ ParseSymbol
    \/ MatchChar
    \/ MatchStr
    \/ MatchNum
    \/ ConsumeWhitespace

Next ==
    \/ NextParse
    \/ ReadWord
    \/ ReadSymbol
    \/ SkipWhitespace

Spec == Init /\ [][Next]_vars

\* only the primitives that check for a fresh cursor are called
SpecParse == Init /\ [][NextParse]_vars

\* the texts with the letters of word in either case
CaseVariants(word) ==
    {[k \in 1..Len(word) |-> IF m[k] THEN to_ascii_uppercase(word[k]) ELSE word[k]] :
        m \in [1..Len(word) -> BOOLEAN]}

Signs == {<<>>, <<"+">>, <<"-">>}

InfTexts == CaseVariants(<<"i", "n", "f">>)
                \cup CaseVariants(<<"i", "n", "f", "i", "n", "i", "t", "y">>)

NanTexts == CaseVariants(<<"n", "a", "n">>)

\* format!("{}", n) for every value n of the integer target types
IntTexts == {FormatInt(n) : n \in MinValue("i8")..MaxValue("u8")}

SpecialTexts == {sign \o t : sign \in Signs, t \in InfTexts \cup NanTexts}

\* a fresh cursor over a formatted number
InitNum ==
    /\ input \in IntTexts \cup SpecialTexts
    /\ committed = 0
    /\ ptr = 0
    /\ last = NoCall
    /\ frame = NoFrame

\* parse_num over formatted numbers
SpecNum == InitNum /\ [][ParseNum]_vars

TypeOK ==
    /\ input \in Inputs
    /\ committed \in 0..Len(input)
    /\ ptr \in 0..(Len(input) - committed)
    /\ last.res \in {"none", "ok", "err"}

(***************************************************************************)
(* Vocabulary of the properties, defined on the input text alone           *)
(***************************************************************************)
\* the length of the maximal run of whitespace after the first k characters
RECURSIVE WsRun(_, _)
WsRun(inp, k) ==
    IF k < Len(inp) /\ inp[k + 1] \in WhitespaceChars THEN 1 + WsRun(inp, k + 1) ELSE 0

\* the length of the maximal run of alphanumerics after the first k characters
RECURSIVE AlnumRun(_, _)
AlnumRun(inp, k) ==
    IF k < Len(inp) /\ is_alphanumeric(inp[k + 1]) THEN 1 + AlnumRun(inp, k + 1) ELSE 0

\* the first index >= from at which ch occurs, 0 when there is none
FirstAt(inp, from, ch) ==
    IF \E k \in from..Len(inp) : inp[k] = ch
    THEN CHOOSE k \in from..Len(inp) :
            inp[k] = ch /\ \A j \in from..(k - 1) : inp[j] # ch
    ELSE 0

\* the call recorded in `last` started on a fresh cursor
Fresh == last.pre.ptr = 0

PreC == last.pre.committed

\* the leading whitespace the call saw, and the index of the character after it
Ws == WsRun(input, PreC)

Start == PreC + Ws + 1

HasFirst == Start <= Len(input)

Returned(op) == last.op = op /\ last.res = "ok"

Failed(op) == last.op = op /\ last.res = "err"

CursorUnchanged == committed = last.pre.committed /\ ptr = last.pre.ptr

ParseOps ==
    {"parse_word", "parse_string", "parse_brackets", "parse_num", "parse_symbol",
     "match_char", "match_str", "match_num", "consume_whitespace"}

(***************************************************************************)
(* Properties                                                              *)
(***************************************************************************)
\* C1: when only the primitives that check for a fresh cursor are called,
\* starting from a fresh cursor, the lookahead offset is 0 after every call,
\* whatever the call returned.
C1_NoDanglingLookahead == ptr = 0

\* C2: a primitive that returns an error leaves the committed position where
\* it was before the call.
C2_ErrorKeepsCommitted == last.res = "err" => committed = last.pre.committed

\* C2 witness: something has been committed, then parse_num scanned a sign or
\* digits that its target type rejects and returned a Generic error.
C2_Witness ==
    /\ Failed("parse_num")
    /\ last.kind = "Generic"
    /\ Fresh
    /\ PreC > 0
    /\ HasFirst
    /\ input[Start] \in AsciiDigits \cup {"-", "+"}

\* C3: after a successful parse_symbol on a fresh cursor the symbol is
\* consumed: the committed position is past the leading whitespace and the
\* symbol, and the lookahead offset is 0.
C3_SymbolConsumed ==
    (Returned("parse_symbol") /\ Fresh) => committed = PreC + Ws + 1 /\ ptr = 0

\* C4: on a fresh cursor whose first non-whitespace character is not a quote,
\* parse_string returns what parse_word returns on the same input and leaves
\* the cursor as parse_word leaves it.
C4_BareWordAsParseWord ==
    (last.op = "parse_string" /\ Fresh /\ HasFirst /\ input[Start] \notin {"'", "\""})
        => LET w == parse_word(input, last.pre) IN
           /\ last.res = w.res
           /\ last.str = w.str
           /\ committed = w.cur.committed
           /\ ptr = w.cur.ptr

\* the index of the delimiter that closes the quoted text opened at Start
CloseQuote == FirstAt(input, Start + 1, input[Start])

\* the input after the committed position is whitespace, a quote, text without
\* that quote, and the same quote
Quoted == HasFirst /\ input[Start] \in {"'", "\""} /\ CloseQuote # 0

\* C5: on quoted input, the empty string included, parse_string returns the
\* text between the delimiters, commits through the closing delimiter and
\* leaves the lookahead offset 0.
C5_QuotedString ==
    (last.op = "parse_string" /\ Fresh /\ Quoted)
        => /\ last.res = "ok"
           /\ last.str = SubSeq(input, Start + 1, CloseQuote - 1)
           /\ committed = CloseQuote
           /\ ptr = 0

\* C6: match_char on a fresh cursor whose first non-whitespace character
\* differs from val returns Ok(false) and leaves the committed position and
\* the lookahead offset as they were.
C6_MatchCharMismatch ==
    (last.op = "match_char" /\ Fresh /\ HasFirst /\ input[Start] # last.ch_arg)
        => last.res = "ok" /\ ~last.flag /\ CursorUnchanged

\* C8: consume_whitespace on a fresh cursor commits the maximal run of leading
\* whitespace and leaves the lookahead offset 0, also when the whitespace
\* reaches the end of the input.
C8_ConsumeWhitespace ==
    (last.op = "consume_whitespace" /\ Fresh)
        => last.res = "ok" /\ committed = PreC + Ws /\ ptr = 0

\* s is the canonical decimal text of the integer n
IsDecimalOf(s, n) ==
    LET digits == IF n < 0 THEN Tail1(s) ELSE s IN
    /\ Len(s) > 0
    /\ n < 0 => s[1] = "-"
    /\ Len(digits) > 0
    /\ AllDigits(digits)
    /\ Len(digits) > 1 => digits[1] # "0"
    /\ DigitsValue(digits) = (IF n < 0 THEN -n ELSE n)

DecimalOf ==
    [n \in MatchNums |->
        CHOOSE s \in Texts(AsciiDigits \cup {"-"}, 3) : IsDecimalOf(s, n)]

\* the text match_str or match_num was asked to match
MatchVal == IF last.op = "match_num" THEN DecimalOf[last.num_arg] ELSE last.str_arg

\* the characters after the leading whitespace start with val
StartsWith(val) ==
    /\ Start + Len(val) - 1 <= Len(input)
    /\ SubSeq(input, Start, Start + Len(val) - 1) = val

\* one of the characters compared with val differs from it
DiffersFrom(val) ==
    \E k \in 1..Len(val) :
        /\ Start + k - 1 <= Len(input)
        /\ SubSeq(input, Start, Start + k - 2) = SubSeq(val, 1, k - 1)
        /\ input[Start + k - 1] # val[k]

\* C7: match_str with a non-empty val on a fresh cursor returns true and
\* commits the whitespace and len(val) characters when the text after the
\* whitespace starts with val, and returns false with the cursor as before
\* when a compared character differs; match_num does the same with the
\* canonical decimal text of its value.
C7_MatchStr ==
    (last.op \in {"match_str", "match_num"} /\ Fresh /\ Len(MatchVal) > 0)
        => /\ StartsWith(MatchVal)
                => /\ last.res = "ok" /\ last.flag
                   /\ committed = PreC + Ws + Len(MatchVal)
                   /\ ptr = 0
           /\ DiffersFrom(MatchVal)
                => last.res = "ok" /\ ~last.flag /\ CursorUnchanged
           /\ last.op = "match_num"
                => LET r == match_str(input, last.pre, MatchVal) IN
                   /\ last.res = r.res /\ last.kind = r.kind /\ last.flag = r.flag
                   /\ Cur = r.cur

\* C7 witness: match_num matched a number of several characters after leading
\* whitespace.
C7_Witness ==
    /\ Returned("match_num")
    /\ Fresh
    /\ last.flag
    /\ Ws > 0
    /\ Len(MatchVal) >= 2

\* C7 witness of the mismatch: match_str returned false after a first
\* character that matched, behind leading whitespace.
C7_MismatchWitness ==
    /\ Returned("match_str")
    /\ Fresh
    /\ ~last.flag
    /\ Ws > 0
    /\ Len(MatchVal) >= 2
    /\ input[Start] = MatchVal[1]

\* the maximal run of alphanumerics after the leading whitespace
WordRun == AlnumRun(input, PreC + Ws)

ThisIsAWord ==
    <<"T", "h", "i", "s", " ", "i", "s", " ", "a", " ", "w", "o", "r", "d", ".">>

\* the words of "This is a word.": where parse_word starts, the word, where it ends
ThisIsAWordCalls ==
    {<<0, <<"T", "h", "i", "s">>, 4>>, <<4, <<"i", "s">>, 7>>,
     <<7, <<"a">>, 9>>, <<9, <<"w", "o", "r", "d">>, 14>>}

\* parse_word returns the maximal alphanumeric run and commits whitespace and run
C9_Word ==
    /\ (last.op = "parse_word" /\ Fresh /\ HasFirst) => last.res = "ok"
    /\ (Returned("parse_word") /\ Fresh)
        => /\ last.str = SubSeq(input, Start, Start + WordRun - 1)
           /\ committed = PreC + Ws + WordRun
           /\ ptr = 0
    /\ \A e \in ThisIsAWordCalls :
        (input = ThisIsAWord /\ last.op = "parse_word" /\ last.pre = Cursor(e[1], 0))
            => last.res = "ok" /\ last.str = e[2] /\ committed = e[3]

\* a parse_symbol that follows a successful parse_word returns the next
\* character that is neither whitespace nor alphanumeric
C9_ThenSymbol ==
    (/\ Returned("parse_word") /\ Fresh
     /\ last'.op = "parse_symbol"
     /\ HasFirst'
     /\ ~is_alphanumeric(input[Start']))
        => last'.res = "ok" /\ last'.ch = input[Start']

\* C9: parse_word on a fresh cursor returns the maximal run of alphanumerics
\* after the leading whitespace and commits exactly whitespace and run;
\* consecutive calls return the words in input order and a following
\* parse_symbol returns the next non-alphanumeric character ("This is a
\* word." gives "This", "is", "a", "word", then '.').
C9_ParseWord == [][C9_Word' /\ C9_ThenSymbol]_vars

\* C9 witness: on "This is a word." the four words have been committed and
\* parse_symbol returned '.'.
C9_Witness ==
    /\ input = ThisIsAWord
    /\ Returned("parse_symbol")
    /\ last.pre = Cursor(14, 0)
    /\ last.ch = "."

Openers == {"(", "[", "{", "<"}

Closer(ch) == IF ch = "(" THEN ")" ELSE IF ch = "[" THEN "]" ELSE IF ch = "{" THEN "}" ELSE ">"

\* the index of the first closer of the bracket opened at Start
FirstClose == FirstAt(input, Start + 1, Closer(input[Start]))

NestedExample == <<"(", "a", "(", "b", ")", "c", ")">>

\* C10: on a fresh cursor whose first non-whitespace character is an opening
\* bracket followed somewhere by its closer, parse_brackets returns the text
\* between the opener and the first such closer and commits through that
\* closer: "(a(b)c)" gives "a(b" and leaves "c)"; the test's
\* "(Or something like that)" gives "Or something like that".
C10_FirstCloseWins ==
    /\ (/\ last.op = "parse_brackets" /\ Fresh /\ HasFirst
        /\ input[Start] \in Openers /\ FirstClose # 0)
        => /\ last.res = "ok"
           /\ last.str = SubSeq(input, Start + 1, FirstClose - 1)
           /\ committed = FirstClose
           /\ ptr = 0
    /\ (input = NestedExample /\ last.op = "parse_brackets" /\ last.pre = Cursor(0, 0))
        => /\ last.res = "ok"
           /\ last.str = <<"a", "(", "b">>
           /\ SubSeq(input, committed + 1, Len(input)) = <<"c", ")">>
    /\ (input = TestSource /\ Returned("parse_brackets"))
        => last.str = <<"O", "r", " ", "s", "o", "m", "e", "t", "h", "i", "n", "g",
                        " ", "l", "i", "k", "e", " ", "t", "h", "a", "t">>

\* C10 witness: parse_brackets has returned on "(a(b)c)", where the span holds
\* a nested opener.
C10_Witness ==
    /\ input = NestedExample
    /\ Returned("parse_brackets")
    /\ Fresh
    /\ committed = 5

\* the text committed by the call recorded in `last`, after its whitespace
CommittedText == SubSeq(input, Start, committed)

\* C11: a primitive that returns success on a fresh cursor has advanced the
\* committed position past the leading whitespace by exactly the length of
\* what it extracted plus the delimiters it consumes: the word; the content
\* and two quotes; the content and two brackets; the numeric text; one
\* character for parse_symbol and match_char; len(val) for match_str.
C11_SuccessAdvance ==
    (Fresh /\ last.res = "ok")
        => /\ last.op = "parse_word" => committed = PreC + Ws + Len(last.str)
           /\ last.op = "parse_string"
                => committed = PreC + Ws + Len(last.str)
                                + (IF input[Start] \in {"'", "\""} THEN 2 ELSE 0)
           /\ last.op = "parse_brackets" => committed = PreC + Ws + Len(last.str) + 2
           /\ last.op = "parse_num"
                => /\ committed > PreC + Ws
                   /\ FromStr(last.type_arg, CommittedText) = ConvOk(last.num)
           /\ last.op = "parse_symbol" => committed = PreC + Ws + 1
           /\ (last.op = "match_char" /\ last.flag) => committed = PreC + Ws + 1
           /\ (last.op = "match_str" /\ last.flag)
                => committed = PreC + Ws + Len(last.str_arg)

\* C12: a primitive that checks for a fresh cursor, called while the lookahead
\* offset is not 0, returns a Generic error and leaves the committed position
\* and the lookahead offset as they were.
C12_MisuseReported ==
    (last.op \in ParseOps /\ ~Fresh)
        => last.res = "err" /\ last.kind = "Generic" /\ CursorUnchanged

\* C12 witness: consume_whitespace was called with lookahead pending in front
\* of whitespace and refused.
C12_Witness ==
    /\ Failed("consume_whitespace")
    /\ ~Fresh
    /\ ptr > 0
    /\ committed + ptr < Len(input)
    /\ input[committed + ptr + 1] \in WhitespaceChars

\* C13: read_word on a fresh cursor over input that is empty or holds only
\* whitespace returns an Empty error and leaves the cursor unchanged.
C13_ReadWordEmpty ==
    (last.op = "read_word" /\ Fresh /\ ~HasFirst)
        => last.res = "err" /\ last.kind = "Empty" /\ CursorUnchanged

\* C13 witness: read_word failed on a fresh cursor in front of whitespace that
\* reaches the end of the input.
C13_Witness ==
    /\ Failed("read_word")
    /\ Fresh
    /\ Ws > 0
    /\ ~HasFirst

\* the length of the maximal run of ASCII digits after the first k characters
RECURSIVE DigitsAfter(_, _)
DigitsAfter(inp, k) ==
    IF k < Len(inp) /\ inp[k + 1] \in AsciiDigits THEN 1 + DigitsAfter(inp, k + 1) ELSE 0

\* the optional sign after the leading whitespace, and the digit run D1 behind it
SignLen == IF HasFirst /\ input[Start] \in {"+", "-"} THEN 1 ELSE 0

Negative == HasFirst /\ input[Start] = "-"

D1Len == DigitsAfter(input, PreC + Ws + SignLen)

D1End == PreC + Ws + SignLen + D1Len

D1Value ==
    LET v == DigitsValue(SubSeq(input, D1End - D1Len + 1, D1End)) IN
    IF Negative THEN -v ELSE v

\* the digit run D2 behind the character after D1
D2Len == DigitsAfter(input, D1End + 1)

\* after the whitespace: optional sign, digits D1, '.', digits D2
DottedForm ==
    /\ D1Len > 0
    /\ D1End < Len(input)
    /\ input[D1End + 1] = "."
    /\ D2Len > 0

IntType(N) == N \in NumTypes /\ ~is_float(N)

\* sign+D1 is a value of the integer type N
D1Fits(N) ==
    /\ Negative => is_signed(N)
    /\ D1Value >= MinValue(N)
    /\ D1Value <= MaxValue(N)

\* an integer parse_num on sign D1 '.' D2 returns sign+D1 and commits through D1
C14_StopsAtDot ==
    (/\ last.op = "parse_num" /\ Fresh /\ IntType(last.type_arg)
     /\ DottedForm /\ D1Fits(last.type_arg))
        => /\ last.res = "ok"
           /\ last.num = NumInt(D1Value)
           /\ committed = D1End
           /\ ptr = 0

\* the parse_symbol that follows it returns '.'
C14_ThenDot ==
    (/\ Returned("parse_num") /\ Fresh /\ IntType(last.type_arg) /\ DottedForm
     /\ last'.op = "parse_symbol")
        => last'.res = "ok" /\ last'.ch = "."

\* the digits behind the '.' that parse_symbol has just returned
DotD2Len == DigitsAfter(input, Start)

DotD2Value == DigitsValue(SubSeq(input, Start + 1, Start + DotD2Len))

\* the integer parse_num that follows the '.' returns the value of D2
C14_ThenD2 ==
    (/\ Returned("parse_symbol") /\ Fresh /\ Ws = 0 /\ last.ch = "."
     /\ PreC > 0 /\ input[PreC] \in AsciiDigits
     /\ DotD2Len > 0
     /\ last'.op = "parse_num" /\ IntType(last'.type_arg)
     /\ DotD2Value <= MaxValue(last'.type_arg))
        => last'.res = "ok" /\ last'.num = NumInt(DotD2Value)

\* C14: parse_num for an integer type never scans '.': on optional sign,
\* digits D1, '.', digits D2 it returns the value of sign+D1 and commits only
\* through D1, the next parse_symbol returns '.' and the next integer
\* parse_num returns the value of D2 ("1.0" gives 1, '.', 0).
C14_IntegerStopsAtDot == [][C14_StopsAtDot' /\ C14_ThenDot /\ C14_ThenD2]_vars

\* the first two parts of C14 without the call that follows parse_symbol
C14_UpToSymbol == [][C14_StopsAtDot' /\ C14_ThenDot]_vars

\* the first call on the whole input
FirstCall(op) == last.op = op /\ last.pre = Cursor(0, 0)

WholeCommitted == committed = Len(input) /\ ptr = 0

\* C15: parse_num on a fresh cursor over the canonical decimal text of a value
\* n of its integer target type returns n and commits the whole text; for a
\* float target the texts inf and infinity in any letter case, with or without
\* a sign, return the infinity of that sign, nan returns a NaN, and the whole
\* literal is committed.
C15_RoundTrip ==
    FirstCall("parse_num")
        => /\ IntType(last.type_arg)
                => \A n \in MinValue(last.type_arg)..MaxValue(last.type_arg) :
                      input = FormatInt(n)
                        => /\ last.res = "ok"
                           /\ last.num = NumInt(n)
                           /\ WholeCommitted
           /\ is_float(last.type_arg)
                => /\ \A sign \in Signs :
                        input \in {sign \o t : t \in InfTexts}
                            => /\ last.res = "ok"
                               /\ last.num = NumInf(sign = <<"-">>)
                               /\ WholeCommitted
                   /\ input \in {sign \o t : sign \in Signs, t \in NanTexts}
                        => /\ last.res = "ok"
                           /\ last.num = NumNaN
                           /\ WholeCommitted

\* C15 witness: "-128" has been parsed as an i8.
C15_Witness ==
    /\ input = <<"-", "1", "2", "8">>
    /\ FirstCall("parse_num")
    /\ last.type_arg = "i8"
    /\ last.res = "ok"
    /\ last.num = NumInt(-128)
    /\ committed = 4

\* C15, the float literals: "-Infinity" has been parsed as an f32.
C15_InfinityWitness ==
    /\ input = <<"-", "I", "n", "f", "i", "n", "i", "t", "y">>
    /\ FirstCall("parse_num")
    /\ last.num = NumInf(TRUE)
    /\ committed = 9

\* the input opens a quoted text that is never closed
Unterminated == HasFirst /\ input[Start] \in {"'", "\""} /\ CloseQuote = 0

\* C16: parse_string on a fresh cursor over quoted input whose closing
\* delimiter never occurs returns an Empty error and leaves the cursor as it
\* was, also behind leading whitespace.
C16_UnterminatedString ==
    (last.op = "parse_string" /\ Fresh /\ Unterminated)
        => last.res = "err" /\ last.kind = "Empty" /\ CursorUnchanged

\* C16 witness: parse_string failed on whitespace, a quote and text with no
\* closing quote.
C16_Witness ==
    /\ Failed("parse_string")
    /\ Fresh
    /\ Unterminated
    /\ Ws > 0
    /\ Start < Len(input)

\* C17: parse_brackets on a fresh cursor returns an Unexpected error when the
\* first non-whitespace character is not an opening bracket and an Empty
\* error when the bracket is never closed; both leave the cursor as it was.
C17_BracketErrors ==
    (last.op = "parse_brackets" /\ Fresh /\ HasFirst)
        => /\ input[Start] \notin Openers
                => last.res = "err" /\ last.kind = "Unexpected" /\ CursorUnchanged
           /\ (input[Start] \in Openers /\ FirstClose = 0)
                => last.res = "err" /\ last.kind = "Empty" /\ CursorUnchanged

\* C17 witness: parse_brackets met a character that is no bracket behind
\* leading whitespace.
C17_Witness ==
    /\ Failed("parse_brackets")
    /\ Fresh
    /\ last.kind = "Unexpected"
    /\ Ws > 0

\* C17, the other error: the bracket behind the whitespace is never closed.
C17_UnclosedWitness ==
    /\ Failed("parse_brackets")
    /\ Fresh
    /\ last.kind = "Empty"
    /\ HasFirst
    /\ Ws > 0

\* the number of characters in front of the first character parse_num looks at
\* after the whitespace and the optional sign
NumAt == PreC + Ws + SignLen

NumHasNext == NumAt < Len(input)

NumNext == input[NumAt + 1]

\* the word read_word finds there
NumWord == SubSeq(input, NumAt + 1, NumAt + AlnumRun(input, NumAt))

\* the digits of the exponent behind D1 and an 'e' with its optional sign
ExpDigits ==
    LET at == D1End + 1
        signed == at < Len(input) /\ input[at + 1] \in {"+", "-"}
    IN DigitsAfter(input, IF signed THEN at + 1 ELSE at)

CleanGenericFailure == last.res = "err" /\ last.kind = "Generic" /\ CursorUnchanged

\* C18: when the span parse_num has scanned is not a number of the target type
\* (no digits; a sign followed by a non-digit; '-' for an unsigned type; for a
\* float a word in i/I/n/N that is not inf, infinity or nan; a value out of
\* range; an exponent without digits), parse_num returns a Generic error, not a
\* shorter valid number, and leaves the cursor as it was.
C18_ConversionFailure ==
    (last.op = "parse_num" /\ Fresh)
        => LET N == last.type_arg IN
           /\ (last.res = "err" /\ last.kind = "Generic") => CursorUnchanged
           /\ (IntType(N) /\ NumHasNext /\ NumNext \notin AsciiDigits)
                => CleanGenericFailure
           /\ (IntType(N) /\ ~is_signed(N) /\ Negative /\ NumHasNext)
                => CleanGenericFailure
           /\ (IntType(N) /\ D1Len > 0 /\ ~D1Fits(N)) => CleanGenericFailure
           /\ (/\ is_float(N) /\ NumHasNext
               /\ NumNext \notin AsciiDigits \cup {".", "i", "I", "n", "N"})
                => CleanGenericFailure
           /\ (/\ is_float(N) /\ NumHasNext /\ NumNext = "."
               /\ DigitsAfter(input, NumAt + 1) = 0)
                => CleanGenericFailure
           /\ (/\ is_float(N) /\ NumHasNext /\ NumNext \in {"i", "I", "n", "N"}
               /\ make_ascii_uppercase(NumWord) \notin {INF, INFINITY, NAN})
                => CleanGenericFailure
           /\ (/\ is_float(N) /\ D1Len > 0 /\ D1End < Len(input)
               /\ input[D1End + 1] \in {"e", "E"} /\ ExpDigits = 0)
                => CleanGenericFailure

\* C18 witness: behind leading whitespace a '-' is followed by a character that
\* is no digit, and parse_num failed.
C18_Witness ==
    /\ Failed("parse_num")
    /\ Fresh
    /\ last.kind = "Generic"
    /\ Ws > 0
    /\ Negative
    /\ NumHasNext
    /\ NumNext \notin AsciiDigits

\* C18, no shorter number: an f32 parse_num failed on digits and an 'e' with
\* no exponent behind it.
C18_ExponentWitness ==
    /\ Failed("parse_num")
    /\ Fresh
    /\ last.type_arg = "f32"
    /\ D1Len > 0
    /\ D1End < Len(input)
    /\ input[D1End + 1] = "e"
    /\ ExpDigits = 0

\* the call met the end of the input behind the leading whitespace, or behind
\* the sign for parse_num
EndsEarly ==
    \/ ~HasFirst
    \/ last.op = "parse_num" /\ SignLen = 1 /\ ~NumHasNext
    \/ last.op = "match_str" /\ last.str_arg = <<>>

\* C19: when parse_num, parse_symbol, match_char or match_str returns an Empty
\* error because the input ends behind the leading whitespace or behind a
\* leading sign, the lookahead offset is 0 on return.
C19_EmptyRollsBack ==
    (/\ last.op \in {"parse_num", "parse_symbol", "match_char", "match_str"}
     /\ Fresh /\ EndsEarly
     /\ last.res = "err" /\ last.kind = "Empty")
        => ptr = 0

\* C20 as stated: every successful parse_word on a fresh cursor returns a
\* non-empty word and strictly advances the committed position (so repeating
\* parse_word reaches an error after finitely many calls).
C20_AlwaysProgress ==
    (Returned("parse_word") /\ Fresh) => Len(last.str) > 0 /\ committed > PreC

\* C20 amended: parse_word on a fresh cursor succeeds only in front of a
\* non-whitespace character; when that character is alphanumeric the word is
\* non-empty and the committed position strictly advances; otherwise the word
\* is empty and only the leading whitespace is committed, so with no
\* whitespace in front of it the call succeeds without moving the cursor.
C20_ProgressOnWords ==
    (Returned("parse_word") /\ Fresh)
        => /\ HasFirst
           /\ ptr = 0
           /\ is_alphanumeric(input[Start])
                => Len(last.str) > 0 /\ committed > PreC
           /\ ~is_alphanumeric(input[Start])
                => last.str = <<>> /\ committed = PreC + Ws

\* C20 witness: parse_word returned a word after words were committed before it.
C20_Witness ==
    /\ Returned("parse_word")
    /\ Fresh
    /\ PreC > 0
    /\ Ws > 0
    /\ Len(last.str) > 0
    /\ committed > PreC + Ws

\* C20, the case the amendment excludes: parse_word succeeded in front of a
\* symbol and the cursor has not moved.
C20_StuckWitness ==
    /\ Returned("parse_word")
    /\ Fresh
    /\ ~is_alphanumeric(input[Start])
    /\ CursorUnchanged

(***************************************************************************)
(* The primitives one step at a time: an action is one iteration of a      *)
(* scanning loop or one straight-line segment between loops.  `frame`      *)
(* holds the position in the code (pc), the function read_word returns to  *)
(* (fn), the position skip_whitespace returns to (ret), the locals, and    *)
(* three counters of the call: the next() calls made, those that returned  *)
(* a character, and the steps taken.                                       *)
(***************************************************************************)
\* the call continues at frame f with the cursor c; while a call is in
\* progress `last` holds no result
Goto(f, c) ==
    /\ input' = input
    /\ committed' = c.committed
    /\ ptr' = c.ptr
    /\ last' = NoCall
    /\ frame' = [f EXCEPT !.steps = @ + 1]

\* the call returns r; the frame keeps the cursor at entry and the counters
Return(f, r) ==
    /\ input' = input
    /\ committed' = r.cur.committed
    /\ ptr' = r.cur.ptr
    /\ last' = [op |-> f.op, ch_arg |-> f.ch_arg, str_arg |-> f.str_arg,
                num_arg |-> f.num_arg, type_arg |-> f.type_arg,
                pre |-> f.entry, res |-> r.res, kind |-> r.kind,
                str |-> r.str, ch |-> r.ch, flag |-> r.flag, num |-> r.num]
    /\ frame' = [NoFrame EXCEPT !.entry = f.entry, !.nexts = f.nexts,
                                !.moved = f.moved, !.steps = f.steps + 1]

\* the frame after a call of next() that returned n
Counted(f, n) ==
    [f EXCEPT !.nexts = @ + 1,
              !.moved = @ + (IF n.item.some THEN 1 ELSE 0)]

\* the primitives that start with the check for a fresh cursor
CheckedOps ==
    {"parse_word", "parse_string", "parse_brackets", "parse_num", "parse_symbol",
     "match_char", "match_str", "match_num", "consume_whitespace"}

\* where the primitive continues when its skip_whitespace()? has returned
AfterSkip(op) ==
    CASE op \in {"read_word", "parse_word"} -> "read_word"
      [] op = "parse_string" -> "parse_string"
      [] op = "parse_brackets" -> "parse_brackets"
      [] op = "parse_num" -> "parse_num"
      [] op \in {"read_symbol", "parse_symbol"} -> "read_symbol"
      [] op = "match_char" -> "match_char"
      [] op \in {"match_str", "match_num"} -> "match_str"
      [] op = "skip_whitespace" -> "return"

\* the call of a primitive: the check for a fresh cursor, then its first loop
EnterCall(op, ch_arg, str_arg, num_arg, type_arg) ==
    /\ frame.pc = "idle"
    /\ LET f == [NoFrame EXCEPT !.op = op, !.fn = op, !.ch_arg = ch_arg,
                                !.str_arg = str_arg, !.num_arg = num_arg,
                                !.type_arg = type_arg, !.entry = Cur,
                                !.val = IF op = "match_num" THEN FormatInt(num_arg)
                                        ELSE str_arg]
       IN IF op \in CheckedOps /\ get_pointer_loc(Cur) # 0
          THEN Return(f, GenericErr(Cur))
          ELSE IF op = "consume_whitespace"
               THEN Goto([f EXCEPT !.pc = "consume_whitespace"], Cur)
               ELSE Goto([f EXCEPT !.pc = "skip_whitespace", !.ret = AfterSkip(op)],
                         Cur)

Enter ==
    \/ \E op \in {"read_word", "parse_word", "parse_string", "parse_brackets",
                  "parse_symbol", "read_symbol", "consume_whitespace",
                  "skip_whitespace"} : EnterCall(op, "", <<>>, 0, "")
    \/ \E N \in NumTypes : EnterCall("parse_num", "", <<>>, 0, N)
    \/ \E val \in MatchChars : EnterCall("match_char", val, <<>>, 0, "")
    \/ \E val \in MatchStrs : EnterCall("match_str", "", val, 0, "")
    \/ \E val \in MatchNums : EnterCall("match_num", "", <<>>, val, "")

\* skip_whitespace_next that calls next() and goes on from where it was
skip_whitespace_next_dropped(inp, c) == c

\* skip_whitespace on a whitespace character: self.next()?
skip_whitespace_next(inp, c) == next(inp, c).cur

\* one iteration of the loop of skip_whitespace
SkipWhitespaceLoop ==
    /\ frame.pc = "skip_whitespace"
    /\ LET p == peek(input, Cur) IN
       IF p.some /\ is_whitespace(p.ch)
       THEN Goto(Counted(frame, next(input, Cur)), skip_whitespace_next(input, Cur))
       ELSE IF frame.ret = "return" THEN Return(frame, OkUnit(Cur))
            ELSE Goto([frame EXCEPT !.pc = frame.ret], Cur)

\* one iteration of the loop of consume_whitespace
ConsumeWhitespaceLoop ==
    /\ frame.pc = "consume_whitespace"
    /\ LET p == peek(input, Cur) IN
       IF ~p.some THEN Return(frame, consume_whitespace_at_end(Cur))
       ELSE IF is_whitespace(p.ch)
            THEN Goto(Counted(frame, next(input, Cur)), next(input, Cur).cur)
            ELSE Return(frame, OkUnit(consume(Cur, get_pointer_loc(Cur))))

\* read_word returns r to the function that called it
ReadWordReturn(f, r) ==
    CASE f.fn = "parse_word" ->
            Return(f, IF r.res = "err" THEN r ELSE parse_word_commit(r))
      [] f.fn = "parse_num" ->
            IF r.res = "err" THEN Return(f, r)
            ELSE IF make_ascii_uppercase(r.str) \in {INF, INFINITY, NAN}
                 THEN Return(f, parse_num_convert(input, r.cur, f.type_arg,
                                                  f.num_start))
                 ELSE Goto([f EXCEPT !.pc = "parse_num_digits"], r.cur)
      [] OTHER -> Return(f, r)

\* read_word after its skip_whitespace: let start_i = self.get_pointer_loc()
ReadWordStart ==
    /\ frame.pc = "read_word"
    /\ Goto([frame EXCEPT !.pc = "read_word_loop", !.start_i = get_pointer_loc(Cur)],
            Cur)

\* one iteration of the loop of read_word
ReadWordLoop ==
    /\ frame.pc = "read_word_loop"
    /\ LET p == peek(input, Cur)
           start_i == frame.start_i
       IN IF ~p.some
          THEN ReadWordReturn(frame,
                   IF get_pointer_loc(Cur) = start_i
                   THEN read_word_at_end(Cur)
                   ELSE SubstrResult(Cur, read_substr(input, Cur, start_i,
                                              get_pointer_loc(Cur) - start_i)))
          ELSE IF ~is_alphanumeric(p.ch)
               THEN ReadWordReturn(frame,
                        SubstrResult(Cur, read_substr(input, Cur, start_i,
                                                      p.pos - start_i)))
               ELSE Goto(Counted(frame, next(input, Cur)), next(input, Cur).cur)

\* parse_string after its skip_whitespace: the first next()
ParseStringFirst ==
    /\ frame.pc = "parse_string"
    /\ LET n == next(input, Cur)
           f == [Counted(frame, n) EXCEPT !.start_i = get_pointer_loc(Cur)]
       IN IF ~n.item.some THEN Return(f, SourceEmpty(reset_pointer_loc(n.cur)))
          ELSE IF n.item.ch \in {"'", "\""}
               THEN Goto([f EXCEPT !.pc = "parse_string_loop",
                                   !.expected_ending = n.item.ch], n.cur)
               ELSE IF get_pointer_loc(n.cur) # 0
                    THEN Return(f, GenericErr(n.cur))
                    ELSE Goto([f EXCEPT !.pc = "skip_whitespace",
                                        !.ret = "read_word",
                                        !.fn = "parse_word"], n.cur)

\* one iteration of the loop of parse_string
ParseStringLoop ==
    /\ frame.pc = "parse_string_loop"
    /\ LET n == next(input, Cur)
           f == Counted(frame, n)
       IN IF ~n.item.some THEN Return(f, parse_string_unterminated(n.cur))
          ELSE IF n.item.ch = frame.expected_ending
               THEN Return(f, parse_string_close(input, n.cur, frame.start_i,
                                                 n.item.pos))
               ELSE Goto(f, n.cur)

\* the closing bracket of an opening one
ClosingOf(ch) ==
    CASE ch = "(" -> ")" [] ch = "<" -> ">" [] ch = "[" -> "]" [] ch = "{" -> "}"

\* parse_brackets after its skip_whitespace: the first next()
ParseBracketsFirst ==
    /\ frame.pc = "parse_brackets"
    /\ LET n == next(input, Cur)
           f == [Counted(frame, n) EXCEPT !.start_i = get_pointer_loc(Cur)]
       IN IF ~n.item.some THEN Return(f, SourceEmpty(reset_pointer_loc(n.cur)))
          ELSE IF n.item.ch \in {"(", "<", "[", "{"}
               THEN Goto([f EXCEPT !.pc = "parse_brackets_loop", !.level = 1,
                                   !.expected_ending = ClosingOf(n.item.ch)],
                         n.cur)
               ELSE Return(f, parse_brackets_unexpected(n.cur))

\* one iteration of the loop of parse_brackets
ParseBracketsLoop ==
    /\ frame.pc = "parse_brackets_loop"
    /\ LET n == next(input, Cur)
           f == Counted(frame, n)
           lvl == bracket_level(frame.level, n.item.ch, frame.expected_ending)
       IN IF ~n.item.some THEN Return(f, SourceEmpty(reset_pointer_loc(n.cur)))
          ELSE IF n.item.ch = frame.expected_ending /\ lvl = 0
               THEN LET sub == read_substr(input, n.cur, frame.start_i + 1,
                                           n.item.pos - frame.start_i - 1)
                    IN Return(f, IF ~sub.ok THEN GenericErr(n.cur)
                                 ELSE OkStr(consume(n.cur, n.item.pos + 1), sub.str))
               ELSE Goto([f EXCEPT !.level = lvl], n.cur)

\* read_symbol after its skip_whitespace
ReadSymbolPeek ==
    /\ frame.pc = "read_symbol"
    /\ LET p == peek(input, Cur) IN
       IF ~p.some THEN Return(frame, SourceEmpty(Cur))
       ELSE IF ~is_whitespace(p.ch) /\ ~is_ascii_alphanumeric(p.ch)
            THEN Return(Counted(frame, next(input, Cur)),
                        OkChar(next(input, Cur).cur, p.ch))
            ELSE Return(frame, GenericErr(Cur))

\* match_char after its skip_whitespace
MatchCharPeek ==
    /\ frame.pc = "match_char"
    /\ LET p == peek(input, Cur) IN
       IF ~p.some THEN Return(frame, SourceEmpty(Cur))
       ELSE IF p.ch = frame.ch_arg
            THEN Return(frame, OkBool(consume(Cur, p.pos + 1), TRUE))
            ELSE Return(frame, match_char_mismatch(Cur))

\* match_str after its skip_whitespace: the first character of val
MatchStrStart ==
    /\ frame.pc = "match_str"
    /\ IF Len(frame.val) = 0 THEN Return(frame, SourceEmpty(Cur))
       ELSE Goto([frame EXCEPT !.pc = "match_str_loop", !.k = 1], Cur)

\* one iteration of the loop of match_str
MatchStrLoop ==
    /\ frame.pc = "match_str_loop"
    /\ LET n == next(input, Cur)
           f == Counted(frame, n)
       IN IF ~n.item.some THEN Return(f, SourceEmpty(reset_pointer_loc(n.cur)))
          ELSE IF n.item.ch # frame.val[frame.k]
               THEN Return(f, match_str_mismatch(n.cur))
               ELSE IF frame.k = Len(frame.val)
                    THEN Return(f, match_str_matched(n.cur, n.item.pos))
                    ELSE Goto([f EXCEPT !.k = @ + 1], n.cur)

\* if the peeked character is one of chars, self.next()?; then go on at pc
SkipOneOf(chars, pc) ==
    LET p == peek(input, Cur) IN
    IF p.some /\ p.ch \in chars
    THEN Goto([Counted(frame, next(input, Cur)) EXCEPT !.pc = pc],
              next(input, Cur).cur)
    ELSE Goto([frame EXCEPT !.pc = pc], Cur)

\* parse_num after its skip_whitespace: start_i and the optional sign
ParseNumSign ==
    /\ frame.pc = "parse_num"
    /\ LET p == peek(input, Cur)
           f == [frame EXCEPT !.num_start = get_pointer_loc(Cur),
                              !.pc = "parse_num_shortcut"]
       IN IF ~p.some THEN Return(f, parse_num_at_end(Cur))
          ELSE IF p.ch \in {"-", "+"}
               THEN Goto(Counted(f, next(input, Cur)), next(input, Cur).cur)
               ELSE Goto(f, Cur)

\* parse_num after the sign: the word of inf, infinity or nan is read
ParseNumShortcut ==
    /\ frame.pc = "parse_num_shortcut"
    /\ LET p == peek(input, Cur) IN
       IF ~p.some THEN Return(frame, parse_num_at_end(Cur))
       ELSE IF is_float(frame.type_arg) /\ p.ch \in {"i", "I", "n", "N"}
            THEN Goto([frame EXCEPT !.pc = "skip_whitespace", !.ret = "read_word",
                                    !.fn = "parse_num"], Cur)
            ELSE Goto([frame EXCEPT !.pc = "parse_num_digits"], Cur)

\* where parse_num continues behind each of its three loops over digits
AfterDigits(pc, N) ==
    CASE pc = "parse_num_digits" ->
            IF is_float(N) THEN "parse_num_dot" ELSE "parse_num_convert"
      [] pc = "parse_num_fraction" -> "parse_num_exp"
      [] pc = "parse_num_exponent" -> "parse_num_convert"

\* one iteration of a loop of parse_num over digits
ParseNumDigits ==
    /\ frame.pc \in {"parse_num_digits", "parse_num_fraction", "parse_num_exponent"}
    /\ LET p == peek(input, Cur) IN
       IF p.some /\ is_ascii_digit(p.ch)
       THEN Goto(Counted(frame, next(input, Cur)), next(input, Cur).cur)
       ELSE Goto([frame EXCEPT !.pc = AfterDigits(frame.pc, frame.type_arg)], Cur)

\* parse_num for a float: the '.'
ParseNumDot ==
    /\ frame.pc = "parse_num_dot"
    /\ SkipOneOf({"."}, "parse_num_fraction")

\* parse_num for a float: the 'e' or 'E'
ParseNumExp ==
    /\ frame.pc = "parse_num_exp"
    /\ LET p == peek(input, Cur)
           has_exp == p.some /\ p.ch \in {"e", "E"}
       IN SkipOneOf({"e", "E"},
                    IF has_exp THEN "parse_num_exp_sign" ELSE "parse_num_convert")

\* parse_num for a float: the sign of the exponent
ParseNumExpSign ==
    /\ frame.pc = "parse_num_exp_sign"
    /\ SkipOneOf({"+", "-"}, "parse_num_exponent")

\* parse_num: the conversion of the accumulated span
ParseNumConvert ==
    /\ frame.pc = "parse_num_convert"
    /\ Return(frame, parse_num_convert(input, Cur, frame.type_arg, frame.num_start))

NextSteps ==
    \/ Enter
    \/ SkipWhitespaceLoop
    \/ ConsumeWhitespaceLoop
    \/ ReadWordStart
    \/ ReadWordLoop
    \/ ParseStringFirst
    \/ ParseStringLoop
    \/ ParseBracketsFirst
    \/ ParseBracketsLoop
    \/ ReadSymbolPeek
    \/ MatchCharPeek
    \/ MatchStrStart
    \/ MatchStrLoop
    \/ ParseNumSign
    \/ ParseNumShortcut
    \/ ParseNumDigits
    \/ ParseNumDot
    \/ ParseNumExp
    \/ ParseNumExpSign
    \/ ParseNumConvert

\* the primitives called one after another, each executed step by step
SpecSteps == Init /\ [][NextSteps]_vars

\* the result record of the call in `last`
LastResult ==
    Result(Cur, last.res, last.kind, last.str, last.ch, last.flag, last.num)

\* the primitive of `last` computed in one piece from the cursor before the call
WholeCall ==
    CASE last.op = "read_word" -> read_word(input, last.pre)
      [] last.op = "parse_word" -> parse_word(input, last.pre)
      [] last.op = "parse_string" -> parse_string(input, last.pre)
      [] last.op = "parse_brackets" -> parse_brackets(input, last.pre)
      [] last.op = "parse_num" -> parse_num(input, last.pre, last.type_arg)
      [] last.op = "parse_symbol" -> parse_symbol(input, last.pre)
      [] last.op = "read_symbol" -> read_symbol(input, last.pre)
      [] last.op = "match_char" -> match_char(input, last.pre, last.ch_arg)
      [] last.op = "match_str" -> match_str(input, last.pre, last.str_arg)
      [] last.op = "match_num" -> match_num(input, last.pre, last.num_arg)
      [] last.op = "consume_whitespace" -> consume_whitespace(input, last.pre)
      [] last.op = "skip_whitespace" -> skip_whitespace(input, last.pre)

\* a call executed step by step returns what the primitive computes in one piece
StepsAgree ==
    (frame.pc = "idle" /\ last.op # "none") => LastResult = WholeCall

\* the positions of the scanning loops
LoopPcs ==
    {"skip_whitespace", "consume_whitespace", "read_word_loop",
     "parse_string_loop", "parse_brackets_loop", "match_str_loop",
     "parse_num_digits", "parse_num_fraction", "parse_num_exponent"}

\* the positions of the straight-line segments
SegmentPcs ==
    {"read_word", "parse_string", "parse_brackets", "read_symbol", "match_char",
     "match_str", "parse_num", "parse_num_shortcut", "parse_num_dot",
     "parse_num_exp", "parse_num_exp_sign", "parse_num_convert"}

\* the most steps of a call that are not an iteration moving the lookahead:
\* parse_num of a float that reads a word (entry, two skip_whitespace exits,
\* no sign, shortcut, read_word start and exit, the exits of two loops over
\* digits, no '.', no 'e', conversion)
MaxSegments == 12

\* the input left in front of the lookahead when the call was made
Remaining == Len(input) - frame.entry.committed - frame.entry.ptr

\* the call has made at most one next() per remaining character and one more
\* that returned the end of the input, every character returned moved the
\* lookahead by one, and the steps taken are bounded by the remaining length
C21_Bounded ==
    /\ frame.pc \in {"idle"} \cup LoopPcs \cup SegmentPcs
    /\ frame.moved <= Remaining
    /\ frame.nexts <= Remaining + 1
    /\ frame.nexts <= frame.moved + 1
    /\ frame.steps <= frame.moved + MaxSegments
    /\ frame.pc # "idle" => /\ committed = frame.entry.committed
                            /\ ptr = frame.entry.ptr + frame.moved

\* a step at a scanning loop returns, leaves the loop or advances the lookahead
C21_LoopProgress ==
    frame.pc \in LoopPcs
        => \/ frame'.pc = "idle"
           \/ frame'.pc # frame.pc
           \/ ptr' = ptr + 1 /\ frame'.nexts = frame.nexts + 1

C21_SegmentsWitness ==
    /\ frame.pc = "idle"
    /\ last.op = "parse_num"
    /\ frame.steps = frame.moved + MaxSegments

====
